---- MODULE Spec2Model ----
(***************************************************************************)
(* A model of src/bin/cat.rs: Program::initialize, Program::and_execute,   *)
(* Program::simple_cat, Program::cat, count_character and push_caret.      *)
(*                                                                         *)
(* Bytes are the integers 0..255.  A source is read lazily: every read of  *)
(* the environment returns an error, 0 bytes (end of input) or a non-empty *)
(* chunk; what was read is recorded in history variables (inputs, marks,   *)
(* outStart) that no action reads back.                                    *)
(***************************************************************************)
EXTENDS Integers, Sequences, FiniteSets, TLC

(* ------------------------------ bounds -------------------------------- *)
\* Longest argument list.
MaxPaths == 2
\* Bytes the environment supplies in one run, over all sources.
MaxBytes == 3

\* The same for the runs that draw their bytes from all of 0..255.
WidePaths == 1
WideBytes == 1

\* One byte per class of the match in Program::cat: control, tab, newline,
\* printable, high-bit.
Alphabet == {1, 9, 10, 97, 200}

\* What a path of the argument list resolves to.
STDIN   == "-"
DIR     == "dir"
MISSING == "missing"
FILE    == "file"
PathKinds == {STDIN, DIR, MISSING, FILE}

\* The flags ArgParser knows (add_flag), by their short names.
FlagNames == {"A", "b", "e", "E", "n", "s", "t", "T", "v", "h"}

\* let mut buf: [u8; 8*8192]
BufSize == 65536

\* The first bytes of MAN_PAGE ("NAME"); the rest of the text is not modelled.
MAN_PAGE == <<78, 65, 77, 69>>

\* exit_code while the process is alive.
NoExit == -1

VARIABLES
  pc,                  \* "init", "assembled", "dispatch", "cat", "simple", "returned", "exited"
  found,               \* the flags parser.found() reports
  paths,               \* parser.args, each path by what it resolves to
  program,             \* the flag fields of struct Program
  exit_status,         \* Program.exit_status (Cell<i32>)
  idx,                 \* position of the for loop over self.paths
  line_count,          \* and_execute's line_count
  character_count,     \* cat's local
  last_line_was_blank, \* cat's local
  out,                 \* the bytes of the writes to standard output that completed
  exit_code,           \* the status the process ended with, or NoExit
  fault,               \* history: why the process exited early
  inputs,              \* history: the bytes read from each source so far
  outStart,            \* history: Len(out) when each source began
  marks,               \* history: every numbering prefix written
  spans,               \* history: where in out each byte cat consumed was emitted
  numbering_args,      \* the -n and -b flags of the command line, in its order
  out_buf,             \* cat's local: the accumulation buffer
  alphabet,            \* environment: the byte values the sources hold
  budget               \* environment: the bytes the sources hold in all

vars == <<pc, found, paths, program, exit_status, idx, line_count, character_count,
          last_line_was_blank, out, exit_code, fault, inputs, outStart, marks, spans,
          numbering_args, out_buf, alphabet, budget>>

\* What the environment is: no action changes it.
env == <<alphabet, budget>>

(* ------------------------------ helpers ------------------------------- *)
Min(a, b) == IF a < b THEN a ELSE b

RECURSIVE SumLen(_)
SumLen(ss) == IF ss = <<>> THEN 0 ELSE Len(Head(ss)) + SumLen(Tail(ss))

\* Sequences over S of length lo..hi.
SeqsOf(S, lo, hi) == UNION {[1..n -> S] : n \in lo..hi}

(* --------------------------- Program::initialize ----------------------- *)
DefaultProgram ==
  [number |-> FALSE, number_nonblank |-> FALSE, show_ends |-> FALSE,
   show_tabs |-> FALSE, show_nonprinting |-> FALSE, squeeze_blank |-> FALSE]

\* Each numbering flag set without clearing the other.
AssembleFlagsNoClear(f) ==
  LET c0 == DefaultProgram
      c1 == IF "A" \in f
            THEN [c0 EXCEPT !.show_nonprinting = TRUE, !.show_ends = TRUE, !.show_tabs = TRUE]
            ELSE c0
      c2 == IF "n" \in f THEN [c1 EXCEPT !.number = TRUE] ELSE c1
      c3 == IF "b" \in f THEN [c2 EXCEPT !.number_nonblank = TRUE] ELSE c2
      c4 == IF "E" \in f \/ "e" \in f THEN [c3 EXCEPT !.show_ends = TRUE] ELSE c3
      c5 == IF "s" \in f THEN [c4 EXCEPT !.squeeze_blank = TRUE] ELSE c4
      c6 == IF "T" \in f \/ "t" \in f THEN [c5 EXCEPT !.show_tabs = TRUE] ELSE c5
      c7 == IF "v" \in f \/ "e" \in f \/ "t" \in f
            THEN [c6 EXCEPT !.show_nonprinting = TRUE] ELSE c6
  IN c7

\* The if over "number" placed after the if over "number-nonblank".
AssembleFlagsNumberLast(f) ==
  LET c0 == DefaultProgram
      c1 == IF "A" \in f
            THEN [c0 EXCEPT !.show_nonprinting = TRUE, !.show_ends = TRUE, !.show_tabs = TRUE]
            ELSE c0
      c2 == IF "b" \in f THEN [c1 EXCEPT !.number_nonblank = TRUE, !.number = FALSE] ELSE c1
      c3 == IF "n" \in f THEN [c2 EXCEPT !.number = TRUE, !.number_nonblank = FALSE] ELSE c2
      c4 == IF "E" \in f \/ "e" \in f THEN [c3 EXCEPT !.show_ends = TRUE] ELSE c3
      c5 == IF "s" \in f THEN [c4 EXCEPT !.squeeze_blank = TRUE] ELSE c4
      c6 == IF "T" \in f \/ "t" \in f THEN [c5 EXCEPT !.show_tabs = TRUE] ELSE c5
      c7 == IF "v" \in f \/ "e" \in f \/ "t" \in f
            THEN [c6 EXCEPT !.show_nonprinting = TRUE] ELSE c6
  IN c7

\* The sequence of ifs over parser.found(..), in the order of the code.
AssembleFlags(f) ==
  LET c0 == DefaultProgram
      c1 == IF "A" \in f
            THEN [c0 EXCEPT !.show_nonprinting = TRUE, !.show_ends = TRUE, !.show_tabs = TRUE]
            ELSE c0
      c2 == IF "n" \in f THEN [c1 EXCEPT !.number = TRUE, !.number_nonblank = FALSE] ELSE c1
      c3 == IF "b" \in f THEN [c2 EXCEPT !.number_nonblank = TRUE, !.number = FALSE] ELSE c2
      c4 == IF "E" \in f \/ "e" \in f THEN [c3 EXCEPT !.show_ends = TRUE] ELSE c3
      c5 == IF "s" \in f THEN [c4 EXCEPT !.squeeze_blank = TRUE] ELSE c4
      c6 == IF "T" \in f \/ "t" \in f THEN [c5 EXCEPT !.show_tabs = TRUE] ELSE c5
      c7 == IF "v" \in f \/ "e" \in f \/ "t" \in f
            THEN [c6 EXCEPT !.show_nonprinting = TRUE] ELSE c6
  IN c7

flags_enabled(p) ==
  p.number \/ p.number_nonblank \/ p.show_ends \/ p.show_tabs \/
  p.squeeze_blank \/ p.show_nonprinting

(* ----------------------- the helpers of Program::cat ------------------- *)
RECURSIVE to_string(_)
\* usize::to_string: the decimal digits, most significant first.
to_string(n) == IF n < 10 THEN <<48 + n>> ELSE to_string(n \div 10) \o <<48 + (n % 10)>>

\* Lines numbered from 1.
NumberingPrefixFrom1(n) == <<32, 32, 32, 32, 32>> \o to_string(n + 1) \o <<32, 32>>

\* b"     ", line_count.to_string(), b"  "
NumberingPrefix(n) == <<32, 32, 32, 32, 32>> \o to_string(n) \o <<32, 32>>

\* The count advanced whatever the flags.
count_character_always(cc, number, number_nonblank) == cc + 1

\* if *number || *number_nonblank { *character_count += 1; }
count_character(cc, number, number_nonblank) ==
  IF number \/ number_nonblank THEN cc + 1 ELSE cc

push_caret(buf, notation) == buf \o <<94, notation>>

\* A prefix for every line start, empty lines included, under either flag.
NeedsPrefixAnyLine(p, cc, byte) == cc = 0 /\ (p.number \/ p.number_nonblank)

\* The condition of the if that opens the body of the for loop.
NeedsPrefix(p, cc, byte) ==
  cc = 0 /\ (p.number \/ (p.number_nonblank /\ byte # 10))

\* A tab shown in caret notation whenever any caret notation is on.
TabArmNonprinting(p, byte) ==
  IF p.show_tabs \/ p.show_nonprinting THEN push_caret(<<>>, 73) ELSE <<byte>>

\* The arm 9 => of the match: what it appends.
TabArm(p, byte) == IF p.show_tabs THEN push_caret(<<>>, 73) ELSE <<byte>>

\* 128...159 taken by the last arm: "M-" and byte - 128.
EmissionMetaOnly(p, byte) ==
  CASE byte \in (0..8) \cup (11..31) ->
         IF p.show_nonprinting THEN push_caret(<<>>, (byte + 64) % 256) ELSE <<>>
    [] byte = 9 -> TabArm(p, byte)
    [] byte \in 32..126 -> <<byte>>
    [] byte = 127 ->
         IF p.show_nonprinting THEN push_caret(<<>>, 63) ELSE <<>>
    [] OTHER ->
         IF p.show_nonprinting THEN <<77, 45>> \o <<(byte - 128) % 256>> ELSE <<byte>>

\* The last arm writing "M-^" as the arm before it does.
EmissionCaretHigh(p, byte) ==
  CASE byte \in (0..8) \cup (11..31) ->
         IF p.show_nonprinting THEN push_caret(<<>>, (byte + 64) % 256) ELSE <<>>
    [] byte = 9 -> TabArm(p, byte)
    [] byte \in 32..126 -> <<byte>>
    [] byte = 127 ->
         IF p.show_nonprinting THEN push_caret(<<>>, 63) ELSE <<>>
    [] byte \in 128..159 ->
         IF p.show_nonprinting THEN <<77, 45, 94>> \o <<(byte - 64) % 256>> ELSE <<byte>>
    [] OTHER ->
         IF p.show_nonprinting THEN <<77, 45, 94>> \o <<(byte - 128) % 256>> ELSE <<byte>>

\* The arms of the match that end in count_character: what they append.
Emission(p, byte) ==
  CASE byte \in (0..8) \cup (11..31) ->
         IF p.show_nonprinting THEN push_caret(<<>>, (byte + 64) % 256) ELSE <<>>
    [] byte = 9 -> TabArm(p, byte)
    [] byte \in 32..126 -> <<byte>>
    [] byte = 127 ->
         IF p.show_nonprinting THEN push_caret(<<>>, 63) ELSE <<>>
    [] byte \in 128..159 ->
         IF p.show_nonprinting THEN <<77, 45, 94>> \o <<(byte - 64) % 256>> ELSE <<byte>>
    [] OTHER ->
         IF p.show_nonprinting THEN <<77, 45>> \o <<(byte - 128) % 256>> ELSE <<byte>>

\* Whether the arm the byte takes calls count_character.
Counts(p, byte) ==
  CASE byte \in (0..8) \cup (11..31) -> p.show_nonprinting
    [] byte = 127 -> p.show_nonprinting
    [] OTHER -> TRUE

\* if self.show_ends { b"$\n" } else { b"\n" }
LineEnd(p) == IF p.show_ends THEN <<36, 10>> ELSE <<10>>

\* The arm 10 => of the match.  s is the streamer's state.
NewlineArm(p, s) ==
  IF s.character_count = 0
  THEN IF p.squeeze_blank /\ s.last_line_was_blank
       THEN s                                                   \* continue
       ELSE [s EXCEPT !.last_line_was_blank = TRUE,
                      !.out_buf = @ \o LineEnd(p)]
  ELSE [s EXCEPT !.last_line_was_blank = FALSE,
                 !.character_count = 0,
                 !.out_buf = @ \o LineEnd(p)]

\* One iteration of `for &byte in buf[0..n_read].iter()`.  The fields src, seen,
\* base, marks and spans of s are history: the source, the bytes of it consumed,
\* Len(out) at the start of the chunk, the prefixes written and, for every byte,
\* the place of what the match appended for it.
CatByte(p, s, byte) ==
  LET s1 == IF NeedsPrefix(p, s.character_count, byte)
            THEN [s EXCEPT !.out_buf = @ \o NumberingPrefix(s.line_count),
                           !.line_count = @ + 1,
                           !.marks = Append(@, [src  |-> s.src,
                                                at   |-> s.seen + 1,
                                                pos  |-> s.base + Len(s.out_buf),
                                                text |-> NumberingPrefix(s.line_count)])]
            ELSE s
      s2 == IF byte = 10
            THEN NewlineArm(p, s1)
            ELSE [s1 EXCEPT !.out_buf = @ \o Emission(p, byte),
                            !.character_count =
                               IF Counts(p, byte)
                               THEN count_character(@, p.number, p.number_nonblank)
                               ELSE @]
  IN [s2 EXCEPT !.seen = @ + 1,
                !.spans = Append(@, [pos |-> s.base + Len(s1.out_buf),
                                     len |-> Len(s2.out_buf) - Len(s1.out_buf)])]

RECURSIVE CatBytes(_, _, _)
\* The for loop over one chunk.
CatBytes(p, s, chunk) ==
  IF chunk = <<>> THEN s ELSE CatBytes(p, CatByte(p, s, Head(chunk)), Tail(chunk))

\* The streamer's state at the top of the loop body.
StreamerState ==
  [line_count |-> line_count, character_count |-> character_count,
   last_line_was_blank |-> last_line_was_blank, out_buf |-> out_buf,
   src |-> idx, seen |-> Len(inputs[idx]), base |-> Len(out), marks |-> marks,
   spans |-> spans[idx]]

(* ------------------------------- Init ---------------------------------- *)
\* The orders in which the flags of f that select a numbering can stand on the
\* command line.
NumberingOrders(f) ==
  {o \in SeqsOf({"n", "b"}, 0, 2) :
     /\ {o[k] : k \in 1..Len(o)} = f \cap {"n", "b"}
     /\ Len(o) = Cardinality(f \cap {"n", "b"})}

\* The state at the start of initialize, for sources of at most nbytes bytes
\* drawn from bytes and at most npaths paths.
InitWith(bytes, nbytes, npaths) ==
  /\ pc = "init"
  /\ found \in SUBSET FlagNames
  /\ numbering_args \in NumberingOrders(found)
  /\ paths \in SeqsOf(PathKinds, 0, npaths)
  /\ program = DefaultProgram
  /\ exit_status = 0
  /\ idx = 1
  /\ line_count = 0
  /\ character_count = 0
  /\ last_line_was_blank = FALSE
  /\ out_buf = <<>>
  /\ out = <<>>
  /\ exit_code = NoExit
  /\ fault = "none"
  /\ inputs = <<>>
  /\ outStart = <<>>
  /\ marks = <<>>
  /\ spans = <<>>
  /\ alphabet = bytes
  /\ budget = nbytes

Init == InitWith(Alphabet, MaxBytes, MaxPaths)

\* One source at most, of one byte at most, of any value.
InitBytes == InitWith(0..255, WideBytes, WidePaths)

(* ------------------------ process::exit, .try(stderr) ------------------ *)
\* OptionalExt::try on an Err, and exit(): the process ends with this status.
\* Its memory is gone: only what standard output accepted and the status stay.
Exit(code, why) ==
  /\ pc' = "exited"
  /\ exit_code' = code
  /\ fault' = why
  /\ found' = {}
  /\ paths' = <<>>
  /\ program' = DefaultProgram
  /\ exit_status' = 0
  /\ idx' = 1
  /\ line_count' = 0
  /\ character_count' = 0
  /\ last_line_was_blank' = FALSE
  /\ inputs' = <<>>
  /\ outStart' = <<>>
  /\ marks' = <<>>
  /\ spans' = <<>>
  /\ numbering_args' = <<>>
  /\ out_buf' = <<>>
  /\ UNCHANGED env

\* The chunks a read may return: 1..BufSize bytes, within the model's budget.
Chunks == SeqsOf(alphabet, 1, Min(BufSize, budget - SumLen(inputs)))

\* The source the driver is at: standard input when no path was given.
NumSources == IF paths = <<>> THEN 1 ELSE Len(paths)
Source(i) == IF paths = <<>> THEN STDIN ELSE paths[i]

\* A slice that loses the last byte read.
WrittenShort(buf, n_read) == SubSeq(buf, 1, n_read - 1)

\* &buf[..n_read]: what simple_cat hands to write_all after a read of n_read bytes.
Written(buf, n_read) == SubSeq(buf, 1, n_read)

(* ------------------------------ actions -------------------------------- *)
\* parser.found("help"): the manual page is written and the process exits 0;
\* a failed write exits 1 through try.
Help ==
  /\ pc = "init"
  /\ "h" \in found
  /\ \E ok \in BOOLEAN :
       IF ok THEN out' = MAN_PAGE /\ Exit(0, "help")
             ELSE out' = out /\ Exit(1, "help")

\* The ifs over parser.found(..) assemble the Program.
Initialize ==
  /\ pc = "init"
  /\ "h" \notin found
  /\ program' = AssembleFlags(found)
  /\ pc' = "assembled"
  /\ UNCHANGED <<found, numbering_args, paths, exit_status, idx, line_count,
                 character_count, last_line_was_blank, out, exit_code, fault, inputs,
                 outStart, marks, spans, out_buf, env>>

\* initialize returns the Program, the parser is dropped, and main calls
\* and_execute.
Execute ==
  /\ pc = "assembled"
  /\ pc' = "dispatch"
  /\ found' = {}
  /\ numbering_args' = <<>>
  /\ UNCHANGED <<program, paths, exit_status, idx, line_count, character_count,
                 last_line_was_blank, out, exit_code, fault, inputs, outStart, marks,
                 spans, out_buf, env>>

\* cat entered with the locals left as the call before left them.
BeginCatKeepsLocals ==
  /\ pc = "dispatch"
  /\ idx <= NumSources
  /\ flags_enabled(program)
  /\ Source(idx) \in {STDIN, FILE}
  /\ pc' = "cat"
  /\ out_buf' = <<>>
  /\ inputs' = Append(inputs, <<>>)
  /\ outStart' = Append(outStart, Len(out))
  /\ spans' = Append(spans, <<>>)
  /\ UNCHANGED <<found, paths, program, exit_status, idx, line_count, out, exit_code,
                 fault, marks, numbering_args, env, character_count,
                 last_line_was_blank>>

\* self.cat(..) is entered: for standard input, or for a file that opened.
BeginCat ==
  /\ pc = "dispatch"
  /\ idx <= NumSources
  /\ flags_enabled(program)
  /\ Source(idx) \in {STDIN, FILE}
  /\ pc' = "cat"
  /\ character_count' = 0
  /\ last_line_was_blank' = FALSE
  /\ out_buf' = <<>>
  /\ inputs' = Append(inputs, <<>>)
  /\ outStart' = Append(outStart, Len(out))
  /\ spans' = Append(spans, <<>>)
  /\ UNCHANGED <<found, paths, program, exit_status, idx, line_count, out, exit_code,
                 fault, marks, numbering_args, env>>

\* self.simple_cat(..) is entered.
BeginSimpleCat ==
  /\ pc = "dispatch"
  /\ idx <= NumSources
  /\ ~flags_enabled(program)
  /\ Source(idx) \in {STDIN, FILE}
  /\ pc' = "simple"
  /\ inputs' = Append(inputs, <<>>)
  /\ outStart' = Append(outStart, Len(out))
  /\ spans' = Append(spans, <<>>)
  /\ UNCHANGED <<found, paths, program, exit_status, idx, line_count, character_count,
                 last_line_was_blank, out, exit_code, fault, marks, numbering_args,
                 out_buf, env>>

\* A skip that ends the loop over the paths instead of going on to the next.
SkipSourceAndStop ==
  /\ exit_status' = 1
  /\ idx' = NumSources + 1
  /\ inputs' = Append(inputs, <<>>)
  /\ outStart' = Append(outStart, Len(out))
  /\ spans' = Append(spans, <<>>)
  /\ UNCHANGED <<pc, exit_code, fault, found, paths, program, line_count,
                 character_count, last_line_was_blank, marks, out, numbering_args,
                 out_buf, env>>

\* A skip that reports the source and forgets exit_status.set(1).
SkipSourceNoStatus ==
  /\ idx' = idx + 1
  /\ inputs' = Append(inputs, <<>>)
  /\ outStart' = Append(outStart, Len(out))
  /\ spans' = Append(spans, <<>>)
  /\ UNCHANGED <<pc, exit_code, fault, exit_status, found, paths, program, line_count,
                 character_count, last_line_was_blank, marks, out, numbering_args,
                 out_buf, env>>

\* The diagnostic of a source that is skipped, then exit_status.set(1); a
\* failed write to standard error exits 1 through try.
SkipSource ==
  /\ \E ok \in BOOLEAN :
       IF ok
       THEN /\ exit_status' = 1
            /\ idx' = idx + 1
            /\ inputs' = Append(inputs, <<>>)
            /\ outStart' = Append(outStart, Len(out))
            /\ spans' = Append(spans, <<>>)
            /\ UNCHANGED <<pc, exit_code, fault>>
            /\ UNCHANGED <<found, paths, program, line_count, character_count,
                           last_line_was_blank, marks, numbering_args, out_buf, env>>
       ELSE Exit(1, "stderr")
  /\ out' = out

\* fs::metadata(&path).map(|m| m.is_dir()).unwrap_or(false)
IsDirectory ==
  /\ pc = "dispatch"
  /\ idx <= NumSources
  /\ Source(idx) = DIR
  /\ SkipSource

\* fs::File::open(&path) fails, on either branch.
OpenFailed ==
  /\ pc = "dispatch"
  /\ idx <= NumSources
  /\ Source(idx) = MISSING
  /\ SkipSource

\* The loop is over: self.exit_status.get() is returned and main exits with it.
Return ==
  /\ pc = "dispatch"
  /\ idx > NumSources
  /\ pc' = "returned"
  /\ exit_code' = exit_status
  /\ UNCHANGED <<found, paths, program, exit_status, idx, line_count, character_count,
                 last_line_was_blank, out, fault, inputs, outStart, marks, spans,
                 numbering_args, out_buf, env>>

\* simple_cat: a read of n_read > 0 bytes, then write_all.
SimpleChunk ==
  /\ pc = "simple"
  /\ \E chunk \in Chunks :
       /\ out' = out \o Written(chunk, Len(chunk))
       /\ inputs' = [inputs EXCEPT ![idx] = @ \o chunk]
  /\ UNCHANGED <<pc, found, paths, program, exit_status, idx, line_count,
                 character_count, last_line_was_blank, exit_code, fault, outStart, marks,
                 spans, numbering_args, out_buf, env>>

\* A buffer that keeps what was flushed.
NotCleared(buf) == buf

\* out_buf.clear()
Cleared(buf) == <<>>

\* cat: a read of n_read > 0 bytes, the for loop, write_all, out_buf.clear().
CatChunk ==
  /\ pc = "cat"
  /\ \E chunk \in Chunks :
       LET s == CatBytes(program, StreamerState, chunk) IN
         /\ out' = out \o s.out_buf
         /\ line_count' = s.line_count
         /\ character_count' = s.character_count
         /\ last_line_was_blank' = s.last_line_was_blank
         /\ marks' = s.marks
         /\ spans' = [spans EXCEPT ![idx] = s.spans]
         /\ inputs' = [inputs EXCEPT ![idx] = @ \o chunk]
         /\ out_buf' = Cleared(s.out_buf)
  /\ UNCHANGED <<pc, found, paths, program, exit_status, idx, exit_code, fault, outStart,
                 numbering_args, env>>

\* The end of a source that held nothing taken for a failure.
EndOfInputEmptyIsError ==
  /\ pc \in {"cat", "simple"}
  /\ pc' = "dispatch"
  /\ idx' = idx + 1
  /\ exit_status' = IF inputs[idx] = <<>> THEN 1 ELSE exit_status
  /\ UNCHANGED <<found, paths, program, line_count, out, exit_code, fault,
                 inputs, outStart, marks, spans, character_count, last_line_was_blank,
                 numbering_args, out_buf, env>>

\* n_read == 0: break, and the driver goes on to the next path.  The locals of
\* cat are dead from here on; they keep their last values until cat is entered
\* again.
EndOfInput ==
  /\ pc \in {"cat", "simple"}
  /\ pc' = "dispatch"
  /\ idx' = idx + 1
  /\ UNCHANGED <<found, paths, program, exit_status, line_count, out, exit_code, fault,
                 inputs, outStart, marks, spans, character_count, last_line_was_blank,
                 numbering_args, out_buf, env>>

\* file.read(&mut buf) returns Err: try exits the process.
ReadError ==
  /\ pc \in {"cat", "simple"}
  /\ Exit(1, "read")
  /\ out' = out

\* stdout.write_all(..) returns Err: try exits the process.  out holds the
\* writes that completed, so the failed one adds nothing to it.  An empty
\* buffer is never handed to the sink and cannot fail.
WriteError ==
  /\ pc \in {"cat", "simple"}
  /\ \E chunk \in Chunks :
       LET buf == IF pc = "cat" THEN CatBytes(program, StreamerState, chunk).out_buf
                  ELSE Written(chunk, Len(chunk))
       IN buf # <<>>
  /\ out' = out
  /\ Exit(1, "write")

Next ==
  \/ Help
  \/ Initialize
  \/ Execute
  \/ BeginCat
  \/ BeginSimpleCat
  \/ IsDirectory
  \/ OpenFailed
  \/ Return
  \/ SimpleChunk
  \/ CatChunk
  \/ EndOfInput
  \/ ReadError
  \/ WriteError

Spec == Init /\ [][Next]_vars

\* The same program over one source of one byte of any value.
SpecBytes == InitBytes /\ [][Next]_vars

TypeOK ==
  /\ pc \in {"init", "assembled", "dispatch", "cat", "simple", "returned", "exited"}
  /\ exit_status \in {0, 1}
  /\ exit_code \in {NoExit, 0, 1}
  /\ SumLen(inputs) <= budget
  /\ out_buf = <<>>
(* ============================ properties ============================== *)
RECURSIVE Flatten(_)
\* The concatenation of a sequence of byte sequences.
Flatten(ss) == IF ss = <<>> THEN <<>> ELSE Head(ss) \o Flatten(Tail(ss))

\* The process is alive or has returned from and_execute.
Alive == pc \in {"dispatch", "cat", "simple", "returned"}

\* What standard output received while source i was the current one.
SrcOut(i) ==
  SubSeq(out, outStart[i] + 1, IF i < Len(outStart) THEN outStart[i + 1] ELSE Len(out))

\* The sources cat (not simple_cat) has streamed or is streaming.
Streamed == {i \in 1..Len(inputs) : flags_enabled(program) /\ Source(i) \in {STDIN, FILE}}

\* C1: with no transformation flag active, standard output is exactly the
\* concatenation, in argument order, of the bytes read from the sources; a
\* source that did not open contributes nothing.  It holds after every chunk,
\* so for every way the reads split the sources.
C1_VerbatimCopy ==
  (Alive /\ ~flags_enabled(program)) =>
     /\ out = Flatten(inputs)
     /\ \A i \in 1..Len(inputs) : Source(i) \in {DIR, MISSING} => inputs[i] = <<>>

\* Two sources, control and high-bit bytes, no newline at the end of either.
C1_Witness ==
  /\ pc = "returned"
  /\ ~flags_enabled(program)
  /\ paths = <<FILE, STDIN>>
  /\ inputs = << <<1, 200>>, <<97>> >>
  /\ out = <<1, 200, 97>>
(* ------------------ squeezing, numbering, line ends ------------------- *)
\* The place in out of what cat appended for byte j of source i.
SpanText(i, j) == SubSeq(out, spans[i][j].pos + 1, spans[i][j].pos + spans[i][j].len)

\* Byte j of the input is the newline of an empty line that follows an empty line.
RepeatedEmpty(in, j) == j >= 2 /\ in[j - 1] = 10 /\ (j = 2 \/ in[j - 2] = 10)

\* C2: with squeeze-blank set, whatever the other flags, the newline of an
\* empty line that follows an empty line is suppressed (a run of empty lines
\* leaves one) and every other newline, that of a single empty line and that
\* of a non-empty line, reaches the output.
C2_SqueezeBlank ==
  (Alive /\ program.squeeze_blank) =>
     \A i \in Streamed : \A j \in 1..Len(inputs[i]) :
        inputs[i][j] = 10 =>
           IF RepeatedEmpty(inputs[i], j)
           THEN spans[i][j].len = 0
           ELSE spans[i][j].len > 0 /\ out[spans[i][j].pos + spans[i][j].len] = 10

\* The offsets of o at which a line begins.
LineStarts(o) == {k \in 0..(Len(o) - 1) : k = 0 \/ o[k] = 10}

\* The prefixes written while source i was streamed.
MarksOf(i) == {k \in 1..Len(marks) : marks[k].src = i}

RECURSIVE ParseDecimal(_)
\* The number a sequence of decimal digits denotes.
ParseDecimal(ds) ==
  IF ds = <<>> THEN 0
  ELSE 10 * ParseDecimal(SubSeq(ds, 1, Len(ds) - 1)) + (ds[Len(ds)] - 48)

\* The counter a numbering prefix carries.
MarkDigits(m) == SubSeq(m.text, 6, Len(m.text) - 2)
MarkNumber(m) == ParseDecimal(MarkDigits(m))

\* C3: with number-all-lines set, every output line of a source begins with
\* exactly one numbering prefix, no prefix stands anywhere else, and each
\* prefix carries the counter of the one before plus 1.
C3_NumberAllLines ==
  (Alive /\ program.number) =>
     /\ \A i \in Streamed :
          /\ {marks[k].pos - outStart[i] : k \in MarksOf(i)} = LineStarts(SrcOut(i))
          /\ Cardinality(MarksOf(i)) = Cardinality(LineStarts(SrcOut(i)))
     /\ \A k \in 2..Len(marks) : MarkNumber(marks[k]) = MarkNumber(marks[k - 1]) + 1

\* C4: with number-nonblank-lines set, a numbering prefix is written only at a
\* byte that is not a newline, so only for a line with a byte before its
\* newline; the newline of an empty line gets none, and line_count moves only
\* with the prefixes written.
C4_NumberNonblank ==
  (Alive /\ program.number_nonblank) =>
     /\ \A k \in 1..Len(marks) : inputs[marks[k].src][marks[k].at] # 10
     /\ \A i \in Streamed : \A j \in 1..Len(inputs[i]) :
          (inputs[i][j] = 10 /\ (j = 1 \/ inputs[i][j - 1] = 10)) =>
             /\ \A k \in MarksOf(i) : marks[k].at # j
             /\ SpanText(i, j) \in {<<>>, LineEnd(program)}
     /\ line_count = Len(marks)

\* An empty line, a numbered line, an empty line: one prefix.
C4_Witness ==
  /\ pc = "returned"
  /\ program.number_nonblank
  /\ inputs = << <<10, 97, 10>> >>
  /\ Len(marks) = 1
  /\ marks[1].at = 2
  /\ line_count = 1

RECURSIVE MarkEnds(_)
\* The input with "$" put before every newline.
MarkEnds(in) ==
  IF in = <<>> THEN <<>>
  ELSE (IF Head(in) = 10 THEN <<36, 10>> ELSE <<Head(in)>>) \o MarkEnds(Tail(in))

\* C5: with show-line-ends as the only flag, the output of a source is its
\* input with "$" before every newline and every other byte unchanged.
C5_ShowEndsOnly ==
  (Alive /\ program = [DefaultProgram EXCEPT !.show_ends = TRUE]) =>
     \A i \in Streamed : SrcOut(i) = MarkEnds(inputs[i])

\* C6: for every tab cat consumes, "^I" stands in its place when show-tabs is
\* set and the raw tab when it is not, whatever the other flags.
C6_Tabs ==
  Alive =>
     \A i \in Streamed : \A j \in 1..Len(inputs[i]) :
        inputs[i][j] = 9 =>
           SpanText(i, j) = IF program.show_tabs THEN <<94, 73>> ELSE <<9>>

\* "a\t\n" with show-tabs gives "a^I\n".
C6_Witness ==
  /\ pc = "returned"
  /\ program = [DefaultProgram EXCEPT !.show_tabs = TRUE]
  /\ inputs = << <<97, 9, 10>> >>
  /\ out = <<97, 94, 73, 10>>
(* ------------------------- the run as a whole ------------------------- *)
\* A numbering prefix as the specification words it: five spaces, the decimal
\* digits of n, two spaces.
WellFormedPrefix(t, n) ==
  /\ Len(t) >= 8
  /\ SubSeq(t, 1, 5) = <<32, 32, 32, 32, 32>>
  /\ SubSeq(t, Len(t) - 1, Len(t)) = <<32, 32>>
  /\ \A d \in 6..(Len(t) - 2) : t[d] \in 48..57
  /\ ParseDecimal(SubSeq(t, 6, Len(t) - 2)) = n

C7_Prefixes ==
  /\ pc = "init" => line_count = 0
  /\ Alive =>
       /\ line_count = Len(marks)
       /\ \A k \in 1..Len(marks) :
            /\ WellFormedPrefix(marks[k].text, k - 1)
            /\ SubSeq(out, marks[k].pos + 1, marks[k].pos + Len(marks[k].text)) = marks[k].text
            /\ k > 1 => /\ marks[k].src >= marks[k - 1].src
                        /\ marks[k].pos >= marks[k - 1].pos + Len(marks[k - 1].text)

\* C7: the line counter starts at 0, is never reset and never decreases while
\* the run lasts, and is shared by the sources: the n-th numbering prefix in
\* the output, n counted from 0 over all sources, carries the decimal number n.
C7_SharedLineCounter ==
  /\ [](C7_Prefixes)
  /\ [][pc' # "exited" => line_count' >= line_count]_vars

\* Prefixes 0 and 1, one in each of two sources.
C7_Witness ==
  /\ pc = "returned"
  /\ program.number
  /\ paths = <<FILE, STDIN>>
  /\ Len(marks) = 2
  /\ marks[1].src = 1
  /\ marks[2].src = 2
  /\ line_count = 2

\* The streamer's state when cat is entered with the counter at lc.
FreshStreamer(lc) ==
  [line_count |-> lc, character_count |-> 0, last_line_was_blank |-> FALSE,
   out_buf |-> <<>>, src |-> 0, seen |-> 0, base |-> 0, marks |-> <<>>, spans |-> <<>>]

RECURSIVE WholeRun(_, _, _)
\* What a run over the sources ins, each read in one chunk, writes and where
\* it leaves the counter, starting with the counter at lc.
WholeRun(p, ins, lc) ==
  IF ins = <<>> THEN [out |-> <<>>, line_count |-> lc]
  ELSE IF flags_enabled(p)
       THEN LET s == CatBytes(p, FreshStreamer(lc), Head(ins))
                r == WholeRun(p, Tail(ins), s.line_count)
            IN [out |-> s.out_buf \o r.out, line_count |-> r.line_count]
       ELSE LET r == WholeRun(p, Tail(ins), lc)
            IN [out |-> Head(ins) \o r.out, line_count |-> lc]

RECURSIVE Opened(_)
\* The inputs of the sources begun so far that are no directory and did open.
Opened(n) ==
  IF n = 0 THEN <<>>
  ELSE IF Source(n) \in {DIR, MISSING} THEN Opened(n - 1)
       ELSE Append(Opened(n - 1), inputs[n])

\* The sources begun so far that are a directory or did not open.
Skipped == {i \in 1..Len(inputs) : Source(i) \in {DIR, MISSING}}

\* C8: a source that is a directory or cannot be opened is not fatal: no
\* streamer runs for it, it gives standard output no byte and leaves the line
\* counter alone, the exit status becomes 1, the later sources are processed,
\* and the output and the counter are those of the run over the list without
\* the skipped sources.
C8_SkippedSource ==
  Alive =>
     /\ \A i \in Skipped :
          /\ inputs[i] = <<>>
          /\ spans[i] = <<>>
          /\ SrcOut(i) = <<>>
          /\ MarksOf(i) = {}
          /\ exit_status = 1
     /\ out = WholeRun(program, Opened(Len(inputs)), 0).out
     /\ line_count = WholeRun(program, Opened(Len(inputs)), 0).line_count
     /\ pc = "returned" =>
          /\ Len(inputs) = NumSources
          /\ Skipped # {} => exit_code = 1

\* A directory, then a file of two numbered lines.
C8_Witness ==
  /\ pc = "returned"
  /\ program = [DefaultProgram EXCEPT !.number = TRUE]
  /\ paths = <<DIR, FILE>>
  /\ inputs = << <<>>, <<97, 10, 97>> >>
  /\ out = NumberingPrefix(0) \o <<97, 10>> \o NumberingPrefix(1) \o <<97>>
  /\ exit_code = 1

\* C9: a read or write error while a source is streamed does not end the run.
C9_StreamErrorNotFatal == ~(pc = "exited" /\ fault \in {"read", "write"})

\* C10: the exit status starts at 0, is 0 or 1, is never set back from 1 to 0
\* while the run lasts, and a run that returns from and_execute (no read or
\* write failed) ends with 1 exactly when some path of the list was a
\* directory or did not open.
C10_ExitStatus ==
  /\ [](/\ exit_status \in {0, 1}
        /\ pc = "init" => exit_status = 0
        /\ pc \in {"returned", "exited"} => exit_code \in {0, 1}
        /\ pc = "returned" =>
             (exit_code = 1 <=> \E i \in 1..Len(paths) : paths[i] \in {DIR, MISSING}))
  /\ [][(exit_status = 1 /\ pc' # "exited") => exit_status' = 1]_vars

\* The failing path comes first and a good one follows: the status stays 1.
C10_Witness ==
  /\ pc = "returned"
  /\ paths = <<MISSING, FILE>>
  /\ inputs[2] # <<>>
  /\ exit_status = 1
  /\ exit_code = 1

(* ------------------------------------------------------------------------ *)
(* The configuration                                                         *)
(* ------------------------------------------------------------------------ *)

\* C11: whatever flags were given, the assembled configuration never has
\* number (number all lines) and number_nonblank (number non-blank lines) both
\* set.
C11_NumberingExclusive == ~(program.number /\ program.number_nonblank)

\* initialize has run on a command line that holds both -n and -b.
C11_Witness ==
  /\ pc = "assembled"
  /\ {"n", "b"} \subseteq found
  /\ program.number_nonblank
  /\ ~program.number

\* C12, as the specification states it: of -n and -b, given both, the one
\* given last wins.
C12_LastNumberingFlagWins ==
  (pc = "assembled" /\ Len(numbering_args) = 2) =>
    /\ numbering_args[2] = "n" => (program.number /\ ~program.number_nonblank)
    /\ numbering_args[2] = "b" => (program.number_nonblank /\ ~program.number)

\* C12, as the code has it: given both -n and -b, in either order, -b wins:
\* number_nonblank is set and number is clear.
C12_NonblankOverridesNumber ==
  (pc = "assembled" /\ {"n", "b"} \subseteq found) =>
    (program.number_nonblank /\ ~program.number)

\* -b was given first and -n after it, and -b has won.
C12_Witness ==
  /\ pc = "assembled"
  /\ numbering_args = <<"b", "n">>
  /\ program.number_nonblank
  /\ ~program.number

(* ------------------------------------------------------------------------ *)
(* Empty sources, chunks, the state of the streamer                          *)
(* ------------------------------------------------------------------------ *)

\* The sources that opened, were read to their end, and held no byte.
EmptySources ==
  {i \in 1..Len(inputs) : i < idx /\ Source(i) \in {STDIN, FILE} /\ inputs[i] = <<>>}

\* What an empty source has left behind.
C13_Empty ==
  Alive =>
    /\ \A i \in EmptySources :
         /\ SrcOut(i) = <<>>
         /\ MarksOf(i) = {}
         /\ spans[i] = <<>>
    /\ line_count = Len(marks)
    /\ exit_status = 1 => Skipped # {}
    /\ (pc = "returned" /\ EmptySources = 1..Len(inputs)) => (out = <<>> /\ exit_code = 0)

\* C13: under every flag combination an empty source gives standard output no
\* byte (no numbering prefix, no '$'), leaves the line counter as it was and
\* leaves the exit status as it was, 0 unless another source has failed: both
\* the entry into the streamer and the read that returns 0 change none of the
\* three.
C13_EmptySource ==
  /\ [](C13_Empty)
  /\ [][(pc = "dispatch" /\ pc' \in {"cat", "simple"}) =>
          (out' = out /\ line_count' = line_count /\ exit_status' = exit_status)]_vars
  /\ [][(pc \in {"cat", "simple"} /\ pc' = "dispatch" /\ inputs[idx] = <<>>) =>
          (out' = out /\ line_count' = line_count /\ exit_status' = exit_status)]_vars

\* An empty file after a file of one numbered line, -n and -E set: the output
\* is that of the first file, the counter stays at 1, the status is 0.
C13_Witness ==
  /\ pc = "returned"
  /\ program.number /\ program.show_ends
  /\ paths = <<FILE, FILE>>
  /\ inputs = << <<97>>, <<>> >>
  /\ out = NumberingPrefix(0) \o <<97>>
  /\ line_count = 1
  /\ exit_code = 0

\* The line counter when source i was begun: the prefixes of the sources before.
CounterAt(i) == Cardinality({k \in 1..Len(marks) : marks[k].src < i})

\* Source i, as far as it has been read, passed through the loop as one chunk.
OneChunk(i) == CatBytes(program, FreshStreamer(CounterAt(i)), inputs[i])

\* C14: for every flag combination and every transformed source, after every
\* chunk, whatever the chunks before it were, what the sink has received for
\* the source and the line counter are those of the same bytes read as one
\* chunk; what was appended for each byte stands in the output once, at the
\* place the one-chunk run gives it, in input order; the locals carry the same
\* values; and the accumulation buffer is empty at the start of each chunk.
C14_ChunkIndependence ==
  Alive =>
    /\ out_buf = <<>>
    /\ \A i \in Streamed :
         LET r == OneChunk(i) IN
           /\ SrcOut(i) = r.out_buf
           /\ CounterAt(i) + Cardinality(MarksOf(i)) = r.line_count
           /\ Len(spans[i]) = Len(inputs[i])
           /\ \A j \in 1..Len(inputs[i]) :
                /\ spans[i][j] = [pos |-> outStart[i] + r.spans[j].pos,
                                  len |-> r.spans[j].len]
                /\ j > 1 => spans[i][j].pos >= spans[i][j - 1].pos + spans[i][j - 1].len
           /\ (i = idx /\ pc = "cat") =>
                /\ line_count = r.line_count
                /\ character_count = r.character_count
                /\ last_line_was_blank = r.last_line_was_blank

\* A chunk has ended inside a numbered line: the prefix and the byte have been
\* flushed, the buffer is empty again, and the source has more to give.
C14_Witness ==
  /\ pc = "cat"
  /\ program.number
  /\ inputs = << <<97>> >>
  /\ budget - SumLen(inputs) >= 2
  /\ out = NumberingPrefix(0) \o <<97>>
  /\ out_buf = <<>>
  /\ character_count = 1

\* The transformed source before source i, 0 if there is none.
PreviousStreamed(i) ==
  LET before == {j \in Streamed : j < i}
  IN IF before = {} THEN 0 ELSE CHOOSE j \in before : \A k \in before : k <= j

\* cat has been entered for a transformed source after the first one and has
\* read nothing yet.
AtSourceStart == pc = "cat" /\ inputs[idx] = <<>> /\ PreviousStreamed(idx) # 0

\* C15, as the specification states it: at the start of each transformed
\* source after the first, character_count and last_line_was_blank have the
\* values they had when the previous transformed source ended.
C15_StreamerStateThreaded ==
  AtSourceStart =>
    LET r == OneChunk(PreviousStreamed(idx)) IN
      /\ line_count = r.line_count
      /\ character_count = r.character_count
      /\ last_line_was_blank = r.last_line_was_blank

\* C15, as the code has it: of the streaming state only line_count is threaded
\* through the sources; at the start of each transformed source after the
\* first, line_count has the value it had when the previous transformed source
\* ended, and character_count and last_line_was_blank are created anew, 0 and
\* FALSE, however the previous source ended.
C15_OnlyLineCountThreaded ==
  AtSourceStart =>
    /\ line_count = OneChunk(PreviousStreamed(idx)).line_count
    /\ character_count = 0
    /\ last_line_was_blank = FALSE

\* The first file ends inside a numbered line; the second one starts with the
\* counter at 1 and the locals as new.
C15_Witness ==
  /\ AtSourceStart
  /\ program.number
  /\ paths = <<FILE, FILE>>
  /\ inputs = << <<97>>, <<>> >>
  /\ OneChunk(1).character_count = 1
  /\ line_count = 1
  /\ character_count = 0

\* The streamer's state of source i before its byte j, the bytes before it
\* read as one chunk.
Before(i, j) ==
  CatBytes(program, FreshStreamer(CounterAt(i)), SubSeq(inputs[i], 1, j - 1))

\* C16: with squeeze-blank set, whatever the other flags (number all lines
\* included), the iteration for a newline that is suppressed (character_count
\* is 0 and the line before was blank) appends nothing to the output and
\* leaves line_count, character_count and last_line_was_blank as they were.
C16_SuppressedNewlineFrame ==
  (Alive /\ program.squeeze_blank) =>
    \A i \in Streamed : \A j \in 1..Len(inputs[i]) :
      LET b == Before(i, j)
          a == CatByte(program, b, inputs[i][j])
      IN (inputs[i][j] = 10 /\ b.character_count = 0 /\ b.last_line_was_blank) =>
           /\ spans[i][j].len = 0
           /\ a.out_buf = b.out_buf
           /\ a.line_count = b.line_count
           /\ a.character_count = b.character_count
           /\ a.last_line_was_blank = b.last_line_was_blank

(* ------------------------------------------------------------------------ *)
(* The bytes                                                                 *)
(* ------------------------------------------------------------------------ *)

\* The table of C17, v being show-nonprinting; the sums and differences are
\* those of the integers, not of u8.
EmissionTable(v, byte) ==
  CASE byte \in (0..8) \cup (11..31) -> IF v THEN <<94, byte + 64>> ELSE <<>>
    [] byte \in 32..126 -> <<byte>>
    [] byte = 127 -> IF v THEN <<94, 63>> ELSE <<>>
    [] byte \in 128..159 -> IF v THEN <<77, 45, 94, byte - 64>> ELSE <<byte>>
    [] byte \in 160..255 -> IF v THEN <<77, 45, byte - 128>> ELSE <<byte>>

\* C17: for each of the 256 byte values other than tab and newline and each
\* flag combination, what the streamer appends for the byte, the numbering
\* prefix aside, is what the table gives: 0x00-0x08 and 0x0B-0x1F '^' and
\* byte + 64 with show-nonprinting and nothing without it, 0x20-0x7E the byte,
\* 0x7F "^?" with show-nonprinting and nothing without it, 0x80-0x9F "M-^" and
\* byte - 64 with show-nonprinting and the byte without it, 0xA0-0xFF "M-" and
\* byte - 128 with show-nonprinting and the byte without it; and no sum or
\* difference leaves 0..255.
C17_EmissionTable ==
  Alive =>
    \A i \in Streamed : \A j \in 1..Len(inputs[i]) :
      LET byte == inputs[i][j]
          t    == EmissionTable(program.show_nonprinting, byte)
      IN byte \notin {9, 10} =>
           /\ SpanText(i, j) = t
           /\ \A k \in 1..Len(t) : t[k] \in 0..255

\* Byte 0x80 under show-nonprinting: "M-^@".
C17_Witness ==
  /\ pc = "returned"
  /\ program.show_nonprinting
  /\ ~program.number /\ ~program.number_nonblank
  /\ inputs = << <<128>> >>
  /\ out = <<77, 45, 94, 64>>

\* C18: with number or number_nonblank set, character_count advances by
\* exactly 1 for each byte other than a newline for which something is
\* emitted; a byte that is dropped (a control byte or DEL without
\* show-nonprinting) leaves it as it is and a newline never advances it (it
\* leaves it 0); with neither flag set count_character never changes it, so
\* it is 0 in every reachable state.
C18_CharacterCount ==
  /\ ~(program.number \/ program.number_nonblank) => character_count = 0
  /\ Alive =>
       /\ pc = "cat" => character_count = OneChunk(idx).character_count
       /\ \A i \in Streamed : \A j \in 1..Len(inputs[i]) :
            LET b == Before(i, j)
                a == CatByte(program, b, inputs[i][j])
            IN IF ~(program.number \/ program.number_nonblank)
               THEN a.character_count = 0 /\ b.character_count = 0
               ELSE IF inputs[i][j] = 10
               THEN a.character_count = 0
               ELSE IF spans[i][j].len > 0
               THEN a.character_count = b.character_count + 1
               ELSE a.character_count = b.character_count

\* Under -n without -v the line 'a', 0x01, 0xC8 has counted two bytes: the
\* control byte was dropped and not counted.
C18_Witness ==
  /\ pc = "cat"
  /\ program.number
  /\ ~program.show_nonprinting
  /\ inputs = << <<97, 1, 200>> >>
  /\ spans[1][2].len = 0
  /\ character_count = 2

\* C19: with show-nonprinting set, whatever the input, every byte that has
\* reached standard output is a tab (0x09), a newline (0x0A) or a printable
\* ASCII byte 0x20-0x7E.
C19_PrintableOutput ==
  (Alive /\ program.show_nonprinting) =>
    \A k \in 1..Len(out) : out[k] \in {9, 10} \cup (32..126)

\* The most bytes the match appends for a byte.
MaxEmission(p, byte) ==
  IF p.show_nonprinting /\ byte \in 128..159 THEN 4
  ELSE IF p.show_nonprinting /\ byte \in 160..255 THEN 3
  ELSE 2

====
